---- MODULE Spec2Model ----
(***************************************************************************)
(* Model of backend/app.py: the Flask chatbot backend.  The process loads  *)
(* a sentence-embedding model and a knowledge base at startup, then serves *)
(* /ask, /history and /health.  /ask resolves a question by cosine         *)
(* similarity against the knowledge-base embeddings and appends the        *)
(* exchange to data/chat_history.json with an unlocked read-modify-write.  *)
(*                                                                         *)
(* Texts are sequences of tokens (words and whitespace).  Embedding        *)
(* vectors are integer vectors; a cosine similarity is kept exactly, as    *)
(* the pair num / sqrt(den2), and compared by cross-multiplication.        *)
(* Python's 0-based indices are 1-based here.                              *)
(***************************************************************************)
EXTENDS Integers, Sequences, FiniteSets, TLC

VARIABLES
    model,                 \* global model (line 15): None or the loaded model
    knowledge_base,        \* global knowledge_base (line 16): None or the entries
    knowledge_embeddings,  \* global knowledge_embeddings (line 17): None or the vectors
    kb_literal,            \* the list literal load_knowledge_base assigns (lines 31-72)
    mainpc,                \* position of the __main__ block (lines 205-213)
    file,                  \* data/chat_history.json (line 102)
    clock,                 \* datetime.now() (lines 116, 163), read in increasing order
    pc,                    \* pc[r]: position of request r's handler
    frame,                 \* frame[r]: the handler's locals
    response,              \* response[r]: what the handler returned
    calls,                 \* calls[r]: the arguments of the calls of lines 153 and 156
    loads,                 \* how often load_model / load_knowledge_base ran
    recorded,              \* the (question, answer) pairs of line 121, in order
    client                 \* the sequential client: where its script starts, what it sent

vars == <<model, knowledge_base, knowledge_embeddings, kb_literal, mainpc,
          file, clock, pc, frame, response, calls, loads, recorded, client>>

-----------------------------------------------------------------------------
(* Bounds of the model *)

MaxReqs == 2        \* requests handled concurrently in Spec
MaxKB == 2          \* longest knowledge base drawn in SpecKB
MaxCalls == 53      \* /ask requests sent one after another in SpecSeq
MaxStart == 3       \* offsets at which the sequential client's script may start

(* Program constants *)

HistoryCap == 50    \* history[-50:]
RecentCap == 10     \* history[-10:]
ThresholdNum == 3   \* confidence > 0.3, as the fraction 3/10
ThresholdDen == 10

\* A Python global: None, or a value
None == [is_none |-> TRUE, value |-> <<>>]

Some(v) == [is_none |-> FALSE, value |-> v]

Reqs == 1..MaxReqs

-----------------------------------------------------------------------------
(* Texts *)

Whitespace == {" ", "\t", "\n"}

RECURSIVE lstrip(_)
lstrip(s) ==
    IF s # <<>> /\ Head(s) \in Whitespace THEN lstrip(Tail(s)) ELSE s

RECURSIVE rstrip(_)
rstrip(s) ==
    IF s # <<>> /\ s[Len(s)] \in Whitespace
    THEN rstrip(SubSeq(s, 1, Len(s) - 1))
    ELSE s

\* only the leading whitespace removed
strip_leading_only(s) == lstrip(s)

\* str.strip(): leading and trailing whitespace removed, inner kept
strip(s) == rstrip(lstrip(s))

-----------------------------------------------------------------------------
(* The embedder and cosine similarity *)

Dim == 6

ZeroVec == <<0, 0, 0, 0, 0, 0>>

\* The vector of one word of the embedder's vocabulary; unknown words and
\* whitespace contribute nothing.
WordVec(w) ==
    CASE w = "prioritize"    -> <<2, 1, 0, 0, 0, 0>>
      [] w = "remote"        -> <<0, 0, 2, 0, 0, 0>>
      [] w = "time"          -> <<1, 2, 0, 0, 0, 0>>
      [] w = "funding"       -> <<0, 2, 1, 0, 0, 0>>
      [] w = "balance"       -> <<1, 0, 2, 0, 0, 0>>
      [] w = "communication" -> <<0, 1, 2, 0, 0, 0>>
      [] w = "motivated"     -> <<2, 0, 1, 0, 0, 0>>
      [] w = "skills"        -> <<1, 0, 1, 0, 0, 0>>
      [] w = "network"       -> <<0, 1, 1, 0, 0, 0>>
      [] w = "presentation"  -> <<1, 1, 2, 0, 0, 0>>
      [] w = "busy"          -> <<1, 1, 0, 0, 0, 0>>
      [] w = "office"        -> <<0, 0, 3, 9, 3, 1>>
      [] w = "france"        -> <<0, 0, 0, 0, 0, 1>>
      [] OTHER               -> ZeroVec

RECURSIVE VecAddFrom(_, _, _)
VecAddFrom(a, b, d) ==
    IF d > Dim THEN <<>> ELSE <<a[d] + b[d]>> \o VecAddFrom(a, b, d + 1)

VecAdd(a, b) == VecAddFrom(a, b, 1)

RECURSIVE encode(_)
\* model.encode of one text: a deterministic function of the text, here the
\* sum of its words' vectors
encode(text) ==
    IF text = <<>> THEN ZeroVec
    ELSE VecAdd(WordVec(Head(text)), encode(Tail(text)))

RECURSIVE encodeAll(_)
\* model.encode of a list of texts: one vector per text, in order
encodeAll(texts) ==
    IF texts = <<>> THEN <<>>
    ELSE <<encode(Head(texts))>> \o encodeAll(Tail(texts))

RECURSIVE DotFrom(_, _, _)
DotFrom(a, b, d) == IF d > Dim THEN 0 ELSE a[d] * b[d] + DotFrom(a, b, d + 1)

Dot(a, b) == DotFrom(a, b, 1)

\* The value 0.0
Zero == [num |-> 0, den2 |-> 1]

\* cosine_similarity of two vectors: dot / (|a| |b|), kept as num / sqrt(den2);
\* a zero-magnitude vector is left unscaled by the normalisation, giving 0.0
cosine_similarity(a, b) ==
    IF Dot(a, a) = 0 \/ Dot(b, b) = 0 THEN Zero
    ELSE [num |-> Dot(a, b), den2 |-> Dot(a, a) * Dot(b, b)]

SignedSquare(s) == (IF s.num < 0 THEN -1 ELSE 1) * s.num * s.num

\* s > t on similarities
SimGT(s, t) == SignedSquare(s) * t.den2 > SignedSquare(t) * s.den2

\* s = t on similarities
SimEQ(s, t) == SignedSquare(s) * t.den2 = SignedSquare(t) * s.den2

\* The comparison of line 95 gone wrong: >= instead of >
AboveThresholdInclusive(s) ==
    /\ s.num > 0
    /\ ThresholdDen * ThresholdDen * s.num * s.num
           >= ThresholdNum * ThresholdNum * s.den2

\* confidence > 0.3
AboveThreshold(s) ==
    /\ s.num > 0
    /\ ThresholdDen * ThresholdDen * s.num * s.num
           > ThresholdNum * ThresholdNum * s.den2

RECURSIVE ArgmaxLastFrom(_, _, _)
ArgmaxLastFrom(sims, best, i) ==
    IF i > Len(sims) THEN best
    ELSE ArgmaxLastFrom(sims, IF SimGT(sims[best], sims[i]) THEN best ELSE i, i + 1)

RECURSIVE ArgmaxFrom(_, _, _)
\* the scan of np.argmax: a later element replaces the best only when greater
ArgmaxFrom(sims, best, i) ==
    IF i > Len(sims) THEN best
    ELSE ArgmaxFrom(sims, IF SimGT(sims[i], sims[best]) THEN i ELSE best, i + 1)

\* np.argmax where ties go to the last maximum instead of the first
argmax_last(sims) == ArgmaxLastFrom(sims, 1, 2)

\* np.argmax of a non-empty array: the first index of the maximum
argmax(sims) == ArgmaxFrom(sims, 1, 2)

-----------------------------------------------------------------------------
(* The knowledge base *)

Fallback == "I'm sorry, I don't have information about that specific topic."

\* The literal of load_knowledge_base: ten question/answer entries
ShippedKB == <<
    [question |-> <<"prioritize", " ", "tasks">>, answer |-> "Use the Eisenhower Matrix"],
    [question |-> <<"remote", " ", "work">>,      answer |-> "Set up a dedicated workspace"],
    [question |-> <<"time">>,                     answer |-> "Use time-blocking"],
    [question |-> <<"funding">>,                  answer |-> "Prepare a solid business plan"],
    [question |-> <<"balance">>,                  answer |-> "Set clear boundaries"],
    [question |-> <<"communication">>,            answer |-> "Practice active listening"],
    [question |-> <<"motivated">>,                answer |-> "Break large projects into milestones"],
    [question |-> <<"skills">>,                   answer |-> "Focus on technical and soft skills"],
    [question |-> <<"network">>,                  answer |-> "Attend industry events"],
    [question |-> <<"presentation">>,             answer |-> "Know your audience"] >>

\* Entries of the other knowledge bases find_best_answer is checked on
KBEntries ==
    { [question |-> q, answer |-> a] :
        q \in {<<"remote">>, <<"time">>, <<"prioritize">>},
        a \in {"A", "B"} }

KnowledgeBases == UNION { [1..n -> KBEntries] : n \in 0..MaxKB }

RECURSIVE Questions(_)
\* [item["question"] for item in knowledge_base]
Questions(kb) ==
    IF kb = <<>> THEN <<>> ELSE <<Head(kb).question>> \o Questions(Tail(kb))

RECURSIVE Reversed(_)
Reversed(s) == IF s = <<>> THEN <<>> ELSE Append(Reversed(Tail(s)), Head(s))

\* The embeddings computed with the questions reversed: the two lists out of step
EmbeddingsReversed(kb) == encodeAll(Reversed(Questions(kb)))

\* knowledge_embeddings = model.encode(questions)
Embeddings(kb) == encodeAll(Questions(kb))

RECURSIVE Similarities(_, _)
\* cosine_similarity(user_embedding, knowledge_embeddings)[0]
Similarities(user_embedding, embeddings) ==
    IF embeddings = <<>> THEN <<>>
    ELSE <<cosine_similarity(user_embedding, Head(embeddings))>>
             \o Similarities(user_embedding, Tail(embeddings))

Raised == [raised |-> TRUE, best_match_idx |-> 0, answer |-> "", confidence |-> Zero]

\* find_best_answer that prefers what the history file already holds: a
\* question seen before is answered with the fallback
find_best_answer_learned(user_question) ==
    IF model.is_none \/ knowledge_embeddings.is_none \/ knowledge_base.is_none
    THEN Raised
    ELSE IF Len(knowledge_embeddings.value) = 0 THEN Raised
    ELSE LET similarities ==
                 Similarities(encode(user_question), knowledge_embeddings.value)
             best_match_idx == argmax(similarities)
             confidence == similarities[best_match_idx]
             seen == \E i \in 1..Len(file.data) : file.data[i].question = user_question
         IN  IF AboveThreshold(confidence) /\ ~seen
             THEN [raised |-> FALSE, best_match_idx |-> best_match_idx,
                   answer |-> knowledge_base.value[best_match_idx].answer,
                   confidence |-> confidence]
             ELSE [raised |-> FALSE, best_match_idx |-> best_match_idx,
                   answer |-> Fallback, confidence |-> Zero]

\* find_best_answer: the returned (answer, confidence) and the local
\* best_match_idx; raised when a line of it raises (model or the embeddings
\* still None, or argmax / cosine_similarity of an empty array)
find_best_answer(user_question) ==
    IF model.is_none \/ knowledge_embeddings.is_none \/ knowledge_base.is_none
    THEN Raised
    ELSE IF Len(knowledge_embeddings.value) = 0 THEN Raised
    ELSE LET similarities ==
                 Similarities(encode(user_question), knowledge_embeddings.value)
             best_match_idx == argmax(similarities)
             confidence == similarities[best_match_idx]
         IN  IF AboveThreshold(confidence)
             THEN [raised |-> FALSE, best_match_idx |-> best_match_idx,
                   answer |-> knowledge_base.value[best_match_idx].answer,
                   confidence |-> confidence]
             ELSE [raised |-> FALSE, best_match_idx |-> best_match_idx,
                   answer |-> Fallback, confidence |-> Zero]

-----------------------------------------------------------------------------
(* The history file *)

Absent == [exists |-> FALSE, content |-> "empty", data |-> <<>>]

\* open(history_file, 'w'): the file exists and holds nothing
Truncated == [exists |-> TRUE, content |-> "empty", data |-> <<>>]

\* bytes that are not one JSON document
Garbage == [exists |-> TRUE, content |-> "garbage", data |-> <<>>]

Json(history) == [exists |-> TRUE, content |-> "json", data |-> history]

\* history[:50]: the first entries kept instead of the last
FirstEntries(history, n) ==
    IF Len(history) > n THEN SubSeq(history, 1, n) ELSE history

\* history[-n:]
LastEntries(history, n) ==
    IF Len(history) > n THEN SubSeq(history, Len(history) - n + 1, Len(history))
    ELSE history

\* What the file holds after json.dump wrote `history` from offset 0 and the
\* file was closed.  Written into the empty file this writer's open() left,
\* it is the document.  When another writer wrote since that open(), the bytes
\* land over the other document: the result is this document if it is at
\* least as long in bytes, and the other's tail after it otherwise.
DumpOutcomes(history) ==
    IF file.content = "empty" THEN {Json(history)}
    ELSE {Json(history), Garbage}

-----------------------------------------------------------------------------
(* Requests and responses *)

\* request.get_json(): no JSON body, a body without 'question', or a body
\* with a question text
NoJson == [json |-> FALSE, has_question |-> FALSE, question |-> <<>>]

NoQuestionKey == [json |-> TRUE, has_question |-> FALSE, question |-> <<>>]

WithQuestion(q) == [json |-> TRUE, has_question |-> TRUE, question |-> q]

\* Question texts a client sends: padded, matching two entries equally,
\* scoring exactly 0.3, off-topic, and blank
QuestionTexts ==
    { <<" ", "prioritize", " ", "tasks", "\n">>,
      <<"busy">>,
      <<"office">>,
      <<"france">>,
      <<" ", "\t">> }

Bodies == {NoJson, NoQuestionKey} \cup { WithQuestion(q) : q \in QuestionTexts }

\* The questions of the sequential client, sent round-robin
Script ==
    << WithQuestion(<<"busy">>),
       WithQuestion(<<" ", "prioritize", " ", "tasks", "\n">>),
       WithQuestion(<<"office">>),
       WithQuestion(<<"remote", " ">>),
       WithQuestion(<<"france">>) >>

NoEntry == [timestamp |-> 0, question |-> <<>>, answer |-> ""]

IdleFrame ==
    [route |-> "", body |-> NoJson, user_question |-> <<>>, best_match_idx |-> 0,
     answer |-> "", confidence |-> Zero, history |-> <<>>, new_entry |-> NoEntry]

NoResponse ==
    [status |-> 0, error |-> "", question |-> <<>>, answer |-> "",
     confidence |-> Zero, timestamp |-> 0, history |-> <<>>,
     model_loaded |-> FALSE, knowledge_base_loaded |-> FALSE]

NoCalls == [find_best_answer |-> <<>>, save_chat_history |-> <<>>]

\* lines 137-141 and 146-150
BadRequest(msg) == [NoResponse EXCEPT !.status = 400, !.error = msg]

\* lines 168-174: the except clause of ask_question
InternalError ==
    [NoResponse EXCEPT !.status = 500, !.error = "Internal server error",
                       !.answer = "Sorry, there was an error processing your question."]

\* lines 159-166
Answered(f, now) ==
    [NoResponse EXCEPT !.status = 200, !.question = f.user_question,
                       !.answer = f.answer, !.confidence = f.confidence,
                       !.timestamp = now]

-----------------------------------------------------------------------------
(* Startup: the __main__ block *)

globals == <<model, knowledge_base, knowledge_embeddings, kb_literal, mainpc, loads>>

requests == <<pc, frame, response, calls>>

\* One serving process is modelled.  (Under debug=True the reloader runs the
\* script again in a child process, which is then the one that serves.)

\* load_model(): SentenceTransformer(...) returns the model, or raises and the
\* process ends before anything is served
LoadModel ==
    /\ mainpc = "load_model"
    /\ \E loaded \in BOOLEAN :
          IF loaded
          THEN /\ model' = Some("all-MiniLM-L6-v2")
               /\ mainpc' = "load_knowledge_base"
          ELSE /\ model' = model
               /\ mainpc' = "failed"
    /\ loads' = [loads EXCEPT !.load_model = @ + 1]
    /\ UNCHANGED <<knowledge_base, knowledge_embeddings, kb_literal, file, clock,
                   recorded, client>>
    /\ UNCHANGED requests

\* load_knowledge_base(), then app.run(...)
LoadKnowledgeBase ==
    /\ mainpc = "load_knowledge_base"
    /\ knowledge_base' = Some(kb_literal)
    /\ knowledge_embeddings' = Some(Embeddings(kb_literal))
    /\ loads' = [loads EXCEPT !.load_knowledge_base = @ + 1]
    /\ mainpc' = "serving"
    /\ UNCHANGED <<model, kb_literal, file, clock, recorded, client>>
    /\ UNCHANGED requests

\* Handlers run for requests that arrive whenever the module is loaded
ServerAcceptingOnImport == TRUE

\* Handlers run only inside app.run(), which __main__ reaches after both loads
ServerAccepting == mainpc = "serving"

-----------------------------------------------------------------------------
(* POST /ask: ask_question and save_chat_history *)

Finish(r, resp) ==
    /\ pc' = [pc EXCEPT ![r] = "done"]
    /\ response' = [response EXCEPT ![r] = resp]

\* Lines 134-156, up to the call of save_chat_history: the body is
\* validated, the question stripped and resolved.
AskReceive(r, body) ==
    /\ ServerAccepting
    /\ pc[r] = "idle"
    /\ IF ~body.json \/ ~body.has_question
       THEN /\ Finish(r, BadRequest("Question is required"))
            /\ frame' = [frame EXCEPT ![r] = [IdleFrame EXCEPT !.route = "ask", !.body = body]]
            /\ calls' = calls
       ELSE LET user_question == strip(body.question) IN
            IF user_question = <<>>
            THEN /\ Finish(r, BadRequest("Question cannot be empty"))
                 /\ frame' = [frame EXCEPT ![r] =
                        [IdleFrame EXCEPT !.route = "ask", !.body = body]]
                 /\ calls' = calls
            ELSE LET found == find_best_answer(user_question) IN
                 IF found.raised
                 THEN /\ Finish(r, InternalError)
                      /\ frame' = [frame EXCEPT ![r] =
                             [IdleFrame EXCEPT !.route = "ask", !.body = body,
                                               !.user_question = user_question]]
                      /\ calls' = [calls EXCEPT ![r].find_best_answer =
                                       Append(@, user_question)]
                 ELSE /\ pc' = [pc EXCEPT ![r] = "save_exists"]
                      /\ response' = response
                      /\ frame' = [frame EXCEPT ![r] =
                             [IdleFrame EXCEPT !.route = "ask", !.body = body,
                                               !.user_question = user_question,
                                               !.best_match_idx = found.best_match_idx,
                                               !.answer = found.answer,
                                               !.confidence = found.confidence]]
                      /\ calls' = [calls EXCEPT
                             ![r].find_best_answer = Append(@, user_question),
                             ![r].save_chat_history =
                                 Append(@, <<user_question, found.answer>>)]
    /\ UNCHANGED <<file, clock, recorded>>
    /\ UNCHANGED globals

\* Lines 105-108 and 111-112: os.path.exists(history_file)
SaveExists(r) ==
    /\ pc[r] = "save_exists"
    /\ IF file.exists
       THEN /\ pc' = [pc EXCEPT ![r] = "save_load"]
            /\ frame' = frame
       ELSE /\ pc' = [pc EXCEPT ![r] = "save_append"]
            /\ frame' = [frame EXCEPT ![r].history = <<>>]
    /\ UNCHANGED <<file, clock, recorded, client, response, calls>>
    /\ UNCHANGED globals

\* Lines 109-110: open(history_file, 'r') and json.load, which raises on a
\* file that holds no complete JSON document; ask_question's except clause
\* then answers 500.
SaveLoad(r) ==
    /\ pc[r] = "save_load"
    /\ IF file.content = "json"
       THEN /\ pc' = [pc EXCEPT ![r] = "save_append"]
            /\ frame' = [frame EXCEPT ![r].history = file.data]
            /\ response' = response
       ELSE /\ Finish(r, InternalError)
            /\ frame' = frame
    /\ UNCHANGED <<file, clock, recorded, client, calls>>
    /\ UNCHANGED globals

\* Lines 114-124: the new entry is appended and the last 50 kept
SaveAppend(r) ==
    /\ pc[r] = "save_append"
    /\ LET new_entry == [timestamp |-> clock,
                         question |-> frame[r].user_question,
                         answer |-> frame[r].answer]
       IN  /\ frame' = [frame EXCEPT
                  ![r].new_entry = new_entry,
                  ![r].history = LastEntries(Append(@, new_entry), HistoryCap)]
           /\ recorded' = Append(recorded, <<new_entry.question, new_entry.answer>>)
    /\ clock' = clock + 1
    /\ pc' = [pc EXCEPT ![r] = "save_open"]
    /\ UNCHANGED <<file, client, response, calls>>
    /\ UNCHANGED globals

\* Line 127: open(history_file, 'w') truncates the file
SaveOpen(r) ==
    /\ pc[r] = "save_open"
    /\ file' = Truncated
    /\ pc' = [pc EXCEPT ![r] = "save_dump"]
    /\ UNCHANGED <<clock, recorded, client, frame, response, calls>>
    /\ UNCHANGED globals

\* Line 128 and the end of the with block, then lines 158-166
SaveDump(r) ==
    /\ pc[r] = "save_dump"
    /\ \E written \in DumpOutcomes(frame[r].history) : file' = written
    /\ Finish(r, Answered(frame[r], clock))
    /\ clock' = clock + 1
    /\ UNCHANGED <<recorded, client, frame, calls>>
    /\ UNCHANGED globals

-----------------------------------------------------------------------------
(* GET /history and GET /health *)

\* get_chat_history: the last 10 entries; a file that cannot be parsed is
\* answered with an error body and status 200
GetHistory(r) ==
    /\ ServerAccepting
    /\ pc[r] = "idle"
    /\ frame' = [frame EXCEPT ![r] = [IdleFrame EXCEPT !.route = "history"]]
    /\ IF ~file.exists
       THEN Finish(r, [NoResponse EXCEPT !.status = 200])
       ELSE IF file.content = "json"
       THEN Finish(r, [NoResponse EXCEPT !.status = 200,
                           !.history = LastEntries(file.data, RecentCap)])
       ELSE Finish(r, [NoResponse EXCEPT !.status = 200,
                           !.error = "Error retrieving chat history"])
    /\ UNCHANGED <<file, clock, recorded, client, calls>>
    /\ UNCHANGED globals

\* health_check
HealthCheck(r) ==
    /\ ServerAccepting
    /\ pc[r] = "idle"
    /\ frame' = [frame EXCEPT ![r] = [IdleFrame EXCEPT !.route = "health"]]
    /\ Finish(r, [NoResponse EXCEPT !.status = 200,
                      !.model_loaded = ~model.is_none,
                      !.knowledge_base_loaded = ~knowledge_base.is_none])
    /\ UNCHANGED <<file, clock, recorded, client, calls>>
    /\ UNCHANGED globals

\* The worker that served request r takes the next one
NextRequest(r) ==
    /\ pc[r] = "done"
    /\ pc' = [pc EXCEPT ![r] = "idle"]
    /\ frame' = [frame EXCEPT ![r] = IdleFrame]
    /\ response' = [response EXCEPT ![r] = NoResponse]
    /\ calls' = [calls EXCEPT ![r] = NoCalls]
    /\ UNCHANGED <<file, clock, recorded, client>>
    /\ UNCHANGED globals

-----------------------------------------------------------------------------
(* Specifications *)

InitWith(literal, start, leftover) ==
    /\ model = None
    /\ knowledge_base = None
    /\ knowledge_embeddings = None
    /\ kb_literal = literal
    /\ mainpc = "load_model"
    /\ file = leftover
    /\ clock = 1
    /\ pc = [r \in Reqs |-> "idle"]
    /\ frame = [r \in Reqs |-> IdleFrame]
    /\ response = [r \in Reqs |-> NoResponse]
    /\ calls = [r \in Reqs |-> NoCalls]
    /\ loads = [load_model |-> 0, load_knowledge_base |-> 0]
    /\ recorded = <<>>
    /\ client = [start |-> start, sent |-> 0]

Startup == LoadModel \/ LoadKnowledgeBase

Save(r) == SaveExists(r) \/ SaveLoad(r) \/ SaveAppend(r) \/ SaveOpen(r) \/ SaveDump(r)

\* Spec: the shipped knowledge base, MaxReqs requests of any route and body
\* handled concurrently (the development server is threaded)
Init == InitWith(ShippedKB, 0, Absent)

Ask(r) == \E body \in Bodies : AskReceive(r, body) /\ UNCHANGED client

Next ==
    \/ Startup
    \/ \E r \in Reqs : Ask(r) \/ Save(r) \/ GetHistory(r) \/ HealthCheck(r)

Spec == Init /\ [][Next]_vars

\* SpecSeq: one client sends MaxCalls questions one after another, cycling
\* through Script from any of MaxStart offsets
InitSeq == \E start \in 0..(MaxStart - 1) : InitWith(ShippedKB, start, Absent)

SeqAsk ==
    /\ client.sent < MaxCalls
    /\ AskReceive(1, Script[((client.start + client.sent) % Len(Script)) + 1])
    /\ client' = [client EXCEPT !.sent = @ + 1]

NextSeq == Startup \/ SeqAsk \/ Save(1) \/ (NextRequest(1) /\ client.sent < MaxCalls)

SpecSeq == InitSeq /\ [][NextSeq]_vars

\* SpecKB: find_best_answer over every knowledge base of at most MaxKB
\* entries, duplicates and the empty one included; one request, with the
\* history file absent or left by an earlier run of the process
PriorEntry == [timestamp |-> 0, question |-> <<"time">>, answer |-> "Use time-blocking"]

InitKB ==
    \E literal \in KnowledgeBases, leftover \in {Absent, Json(<<PriorEntry>>)} :
        InitWith(literal, 0, leftover)

NextKB == Startup \/ Ask(1) \/ Save(1) \/ GetHistory(1) \/ HealthCheck(1)

SpecKB == InitKB /\ [][NextKB]_vars

-----------------------------------------------------------------------------
(* Properties *)

\* Request r is an /ask whose find_best_answer call returned
Resolved(r) == frame[r].route = "ask" /\ frame[r].best_match_idx > 0

\* The similarity of request r's question to every stored embedding
SimsOf(r) == Similarities(encode(frame[r].user_question), knowledge_embeddings.value)

\* The value 0.3
Threshold == [num |-> ThresholdNum, den2 |-> ThresholdDen * ThresholdDen]

\* t is q without its leading and trailing whitespace
IsTrimOf(t, q) ==
    /\ \E i \in 1..(Len(q) + 1), j \in 0..Len(q) :
          /\ t = SubSeq(q, i, j)
          /\ \A k \in 1..Len(q) : (k < i \/ k > j) => q[k] \in Whitespace
    /\ t # <<>> => (t[1] \notin Whitespace /\ t[Len(t)] \notin Whitespace)

\* The body carries a question that is non-empty after trimming
HasQuestion(body) ==
    /\ body.json
    /\ body.has_question
    /\ \E k \in 1..Len(body.question) : body.question[k] \notin Whitespace

Quiescent == \A r \in Reqs : pc[r] \in {"idle", "done"}

\* C1: find_best_answer returns (knowledge_base[best].answer, score) exactly
\* when the best score is strictly greater than 0.3, and the fallback with
\* confidence 0.0 otherwise, a score equal to 0.3 included.
C1_ThresholdPolicy ==
    \A r \in Reqs : Resolved(r) =>
        LET sims == SimsOf(r)
            best == frame[r].best_match_idx
        IN  /\ \A j \in 1..Len(sims) : ~SimGT(sims[j], sims[best])
            /\ IF SimGT(sims[best], Threshold)
               THEN /\ frame[r].answer = knowledge_base.value[best].answer
                    /\ frame[r].confidence = sims[best]
               ELSE /\ frame[r].answer = Fallback
                    /\ frame[r].confidence = Zero

\* C1 witness: a question whose best score is exactly 0.3 got the fallback
C1_Witness ==
    \E r \in Reqs :
        /\ Resolved(r)
        /\ SimEQ(SimsOf(r)[frame[r].best_match_idx], Threshold)
        /\ frame[r].answer = Fallback
        /\ frame[r].confidence = Zero

\* C2: the selected entry has the maximum similarity over all entries, and
\* among the entries sharing the maximum it is the one with the lowest index.
C2_FirstMaximum ==
    \A r \in Reqs : Resolved(r) =>
        LET sims == SimsOf(r)
            best == frame[r].best_match_idx
        IN  /\ best \in 1..Len(knowledge_base.value)
            /\ \A j \in 1..Len(sims) :
                  IF j < best THEN SimGT(sims[best], sims[j])
                  ELSE ~SimGT(sims[j], sims[best])

\* C2 witness: two entries with different answers share the maximum and the
\* answer of the lower-indexed one was returned
C2_Witness ==
    \E r \in Reqs :
        /\ Resolved(r)
        /\ LET sims == SimsOf(r)
               best == frame[r].best_match_idx
           IN  /\ \E j \in (best + 1)..Len(sims) :
                      /\ SimEQ(sims[j], sims[best])
                      /\ knowledge_base.value[j].answer # knowledge_base.value[best].answer
               /\ frame[r].answer = knowledge_base.value[best].answer

\* C3: once n save_chat_history calls have run one after another, the file
\* holds at most 50 records, and they are the last min(n, 50) recorded
\* (question, answer) pairs in the order they were appended.
C3_LastFiftyKept ==
    Quiescent /\ recorded # <<>> =>
        LET n == Len(recorded)
            kept == IF n < HistoryCap THEN n ELSE HistoryCap
        IN  /\ file.content = "json"
            /\ Len(file.data) = kept
            /\ Len(file.data) <= HistoryCap
            /\ \A i \in 1..kept :
                  /\ file.data[i].question = recorded[n - kept + i][1]
                  /\ file.data[i].answer = recorded[n - kept + i][2]

\* C3 witness: more than 50 calls were made and the file holds 50 records
C3_Witness ==
    /\ Quiescent
    /\ Len(recorded) > HistoryCap
    /\ file.content = "json"
    /\ Len(file.data) = HistoryCap

\* C4: once initialization has completed, an /ask request whose question is
\* non-empty after trimming never ends with a 500 response.
C4_AskNeverFails ==
    \A r \in Reqs :
        (pc[r] = "done" /\ frame[r].route = "ask" /\ HasQuestion(frame[r].body))
            => response[r].status = 200

C6_NoLostRecord ==
    Quiescent =>
        \A r \in Reqs :
            (frame[r].route = "ask" /\ response[r].status = 200) =>
                /\ file.content = "json"
                /\ \E i \in 1..Len(file.data) : file.data[i] = frame[r].new_entry

\* C7: load_model and load_knowledge_base each run once, no handler runs
\* before both have, and find_best_answer never runs while model,
\* knowledge_base or knowledge_embeddings is None.
C7_InitBeforeRequests ==
    /\ loads.load_model <= 1
    /\ loads.load_knowledge_base <= 1
    /\ \A r \in Reqs :
          /\ pc[r] # "idle" =>
                /\ mainpc = "serving"
                /\ loads = [load_model |-> 1, load_knowledge_base |-> 1]
          /\ calls[r].find_best_answer # <<>> =>
                /\ ~model.is_none
                /\ ~knowledge_base.is_none
                /\ ~knowledge_embeddings.is_none

\* C7 witness: find_best_answer has run, after both loads
C7_Witness ==
    \E r \in Reqs :
        /\ calls[r].find_best_answer # <<>>
        /\ loads = [load_model |-> 1, load_knowledge_base |-> 1]
        /\ Resolved(r)

\* C8: an /ask request with a question that is non-empty after trimming
\* calls find_best_answer once and then save_chat_history once, with the
\* trimmed question and the resolved answer; a request with a missing or
\* blank question is rejected with neither call and no record.
C8_OneRecordPerQuestion ==
    \A r \in Reqs :
        /\ Len(calls[r].save_chat_history) <= 1
        /\ (pc[r] = "done" /\ frame[r].route = "ask") =>
              IF HasQuestion(frame[r].body)
              THEN /\ Len(calls[r].find_best_answer) = 1
                   /\ Len(calls[r].save_chat_history) = 1
                   /\ IsTrimOf(calls[r].save_chat_history[1][1], frame[r].body.question)
                   /\ calls[r].find_best_answer[1] = calls[r].save_chat_history[1][1]
                   /\ calls[r].save_chat_history[1][2] = frame[r].answer
                   /\ \/ frame[r].answer = Fallback
                      \/ \E i \in 1..Len(knowledge_base.value) :
                            frame[r].answer = knowledge_base.value[i].answer
              ELSE /\ calls[r] = NoCalls
                   /\ response[r].status = 400
                   /\ frame[r].new_entry = NoEntry
                   /\ \A i \in 1..Len(recorded) :
                         ~IsTrimOf(recorded[i][1], frame[r].body.question)

\* C8 witness: one request with a padded question was answered and recorded,
\* another with a blank question was rejected
C8_Witness ==
    \E r1, r2 \in Reqs :
        /\ pc[r1] = "done" /\ pc[r2] = "done"
        /\ frame[r1].route = "ask" /\ frame[r2].route = "ask"
        /\ response[r1].status = 200
        /\ frame[r1].body.question # frame[r1].user_question
        /\ Len(calls[r1].save_chat_history) = 1
        /\ frame[r2].body.has_question
        /\ ~HasQuestion(frame[r2].body)
        /\ response[r2].status = 400

\* EmbeddingTable[i] is the embedding of KnowledgeBase[i].question
Lockstep ==
    /\ Len(knowledge_embeddings.value) = Len(knowledge_base.value)
    /\ \A i \in 1..Len(knowledge_base.value) :
          knowledge_embeddings.value[i] = encode(knowledge_base.value[i].question)

\* C9: once built, knowledge_base and knowledge_embeddings are changed by no
\* request, have the same length, and knowledge_embeddings[i] is the
\* embedding of knowledge_base[i].question.
C9_IndexFrozen ==
    /\ [](mainpc = "serving" => Lockstep)
    /\ [][mainpc = "serving" =>
            UNCHANGED <<knowledge_base, knowledge_embeddings>>]_vars

\* C9 witness: requests of all three routes have been served after the build
C9_Witness ==
    /\ mainpc = "serving"
    /\ Lockstep
    /\ \E r1, r2 \in Reqs :
          /\ pc[r1] = "done" /\ frame[r1].route = "ask" /\ response[r1].status = 200
          /\ pc[r2] = "done" /\ frame[r2].route \in {"history", "health"}

\* C10: two requests resolving the same question get the same answer and
\* confidence, whatever was asked before and whatever the history file held.
C10_Deterministic ==
    \A r1, r2 \in Reqs :
        (Resolved(r1) /\ Resolved(r2)
            /\ frame[r1].user_question = frame[r2].user_question)
          => /\ frame[r1].answer = frame[r2].answer
             /\ frame[r1].confidence = frame[r2].confidence

\* C10 witness: the same question was resolved twice, the second time with
\* the first exchange already in the history
C10_Witness ==
    \E r1, r2 \in Reqs :
        /\ r1 # r2
        /\ pc[r1] = "done" /\ pc[r2] = "done"
        /\ response[r1].status = 200 /\ response[r2].status = 200
        /\ frame[r1].user_question = frame[r2].user_question
        /\ frame[r1].answer # Fallback
        /\ frame[r2].history = <<frame[r1].new_entry, frame[r2].new_entry>>

====
